---------------------------- MODULE Spec2Model ----------------------------
(***************************************************************************)
(* Model of the /places handler find_places of TimeReach (src/main.py).    *)
(* One behaviour is one request.  The handler is cut at its three blocking *)
(* provider calls (requests.get / requests.post): every action is the code *)
(* that runs between two of them, and the provider's answer is the input   *)
(* of the action that resumes the handler.                                 *)
(*                                                                         *)
(* Python's None is the empty tuple and a present value v is <<v>>.        *)
(* Coordinates are integer grid positions 25 km apart; the geodesic        *)
(* distance is the planar distance on that grid, in metres.                *)
(***************************************************************************)
EXTENDS Integers, Sequences, FiniteSets, TLC

VARIABLES request, pc, lat, lon, calls, geocode_req, isochrone_req, places_req,
          geocode_resp, isochrone_resp, places_resp, average_radius,
          status_code, raised, result, silent

vars == <<request, pc, lat, lon, calls, geocode_req, isochrone_req, places_req,
          geocode_resp, isochrone_resp, places_resp, average_radius,
          status_code, raised, result, silent>>

---------------------------------------------------------------------------
(* Bounds of the model *)
MaxVerts == 3
MaxVenues == 22
MaxCandidates == 1

(* Program constants *)
MaxRadius == 50000
MaxResultCount == 20
ResultLimit == 20

None == <<>>
Some(v) == <<v>>
Val(o) == o[1]

Min(a, b) == IF a <= b THEN a ELSE b

RECURSIVE SumSeq(_)
SumSeq(s) == IF s = <<>> THEN 0 ELSE Head(s) + SumSeq(Tail(s))

(* largest r with r * r <= n *)
RECURSIVE IsqrtFrom(_, _)
IsqrtFrom(n, r) == IF (r + 1) * (r + 1) > n THEN r ELSE IsqrtFrom(n, r + 1)

Isqrt(n) == IsqrtFrom(n, 0)

SeqsUpTo(S, n) == UNION {[1..k -> S] : k \in 0..n}

---------------------------------------------------------------------------
(* class TransportMode *)
TransportMode == {"driving-car", "driving-hgv", "cycling-regular", "cycling-road",
                  "cycling-mountain", "cycling-electric", "foot-walking",
                  "foot-hiking", "wheelchair"}

(* Query parameters as the handler receives them *)
Locations == {None, Some(""), Some("Eiffel Tower, Paris")}
Coords == 0..1
OptCoords == {None} \cup {Some(c) : c \in Coords}
Modes == {"driving-car", "foot-walking", "car"}
Keywords == {"", "bistro"}

Requests == [location : Locations, lat : OptCoords, lon : OptCoords,
             minutes : {20}, mode : Modes, type : {"restaurant"},
             keyword : Keywords]

(* Python truthiness of an Optional[str] *)
Truthy(s) == s # None /\ Val(s) # ""

---------------------------------------------------------------------------
(* What the three providers can answer.  exc is the exception requests     *)
(* raises instead of returning ("" when a response comes back), body the   *)
(* decoded JSON document; a key the document lacks is None.                *)

TransportErrors == {[exc |-> e, status_code |-> 0, body |-> None] :
                      e \in {"ConnectionError", "Timeout"}}

Candidates == {[lat |-> 0, lng |-> 1], [lat |-> 1, lng |-> 0]}

GeocodeBodies == [status : {"OK", "ZERO_RESULTS", "REQUEST_DENIED", "OVER_QUERY_LIMIT"},
                  results : SeqsUpTo(Candidates, MaxCandidates)]

GeocodeResponses ==
    TransportErrors
    \cup {[exc |-> "", status_code |-> 500, body |-> Some([status |-> "UNKNOWN_ERROR", results |-> <<>>])]}
    \cup {[exc |-> "", status_code |-> 200, body |-> Some(b)] : b \in GeocodeBodies}

(* vertices are (lon, lat) *)
Vertices == {<<0, 1>>, <<1, 3>>}

Geometries ==
    {[type |-> "Polygon", coordinates |-> c] : c \in SeqsUpTo(Vertices, MaxVerts)}
    \cup {[type |-> "Unknown", coordinates |-> <<>>]}

IsochroneBodies == {[features |-> None], [features |-> Some(<<>>)]}
                   \cup {[features |-> Some(<<g>>)] : g \in Geometries}

IsochroneResponses ==
    TransportErrors
    \cup {[exc |-> "", status_code |-> 500, body |-> Some([features |-> None])]}
    \cup {[exc |-> "", status_code |-> 200, body |-> Some(b)] : b \in IsochroneBodies}

Venue(i) == [id |-> i,
             displayName |-> IF i % 2 = 0 THEN None ELSE Some("Le Bistrot Parisien")]

(* the provider ranks its venues as it likes: by rising or by falling id *)
VenueLists == {[i \in 1..n |-> Venue(i)] : n \in 0..MaxVenues}
              \cup {[i \in 1..n |-> Venue(n + 1 - i)] : n \in 0..MaxVenues}

PlacesBodies == {[places |-> None]} \cup {[places |-> Some(l)] : l \in VenueLists}

PlacesResponses ==
    TransportErrors
    \cup {[exc |-> "", status_code |-> 500, body |-> Some([places |-> None])]}
    \cup {[exc |-> "", status_code |-> 200, body |-> Some(b)] : b \in PlacesBodies}

---------------------------------------------------------------------------
(* Response.raise_for_status *)
RaiseForStatus(resp) == resp.status_code >= 400

MissingInput_OnlyBothAbsent(location, la, lo) == location = None /\ (la = None /\ lo = None)

(* the guard of the first raise *)
MissingInput(location, la, lo) == location = None /\ (la = None \/ lo = None)

NeedsGeocoding_WheneverNamed(location, la, lo) == Truthy(location)

(* the guard of the geocoding block *)
NeedsGeocoding(location, la, lo) == Truthy(location) /\ (la = None \/ lo = None)

(* the calls of the three try blocks end in "except requests.RequestException" *)
GeocodeRequestException(resp) == resp.exc # "" \/ RaiseForStatus(resp)

IsochroneRequestException_NoRaiseForStatus(resp) == resp.exc # ""

IsochroneRequestException(resp) == resp.exc # "" \/ RaiseForStatus(resp)

PlacesRequestException(resp) == resp.exc # "" \/ RaiseForStatus(resp)

(* geopy.distance.geodesic(a, b).meters, a and b being (lat, lon) *)
Geodesic(a, b) ==
    Isqrt(100 * ((a[1] - b[1]) * (a[1] - b[1]) + (a[2] - b[2]) * (a[2] - b[2]))) * 2500

(* shapely.geometry.shape(g) or poly.exterior raises: the geometry is no *)
(* polygon, or its ring has 1 or 2 coordinates                           *)
ShapeRaises(g) ==
    g.type # "Polygon" \/ (g.coordinates # <<>> /\ Len(g.coordinates) < 3)

(* shape(g).exterior.coords: shapely closes a ring that is open or has 3 *)
(* coordinates by repeating its first coordinate                         *)
ExteriorCoords(g) ==
    LET c == g.coordinates IN
    IF c = <<>> THEN <<>>
    ELSE IF c[1] # c[Len(c)] \/ Len(c) = 3 THEN Append(c, c[1])
    ELSE c

(* distances = [...]; average_radius = int(sum(distances) / len(distances)) *)
Distances(la, lo, coords) ==
    [i \in 1..Len(coords) |-> Geodesic(<<la, lo>>, <<coords[i][2], coords[i][1]>>)]

AverageRadius(distances) == SumSeq(distances) \div Len(distances)

PlacesRadius_Uncapped(radius) == radius

(* "radius": min(float(average_radius), 50000.0) *)
PlacesRadius(radius) == Min(radius, MaxRadius)

(* text_query = keyword if keyword else type *)
TextQuery(keyword, type) == IF keyword # "" THEN keyword ELSE type

(* one element of the "places" list of the response *)
ShapePlace(p) == [name |-> IF p.displayName = None THEN "Unknown" ELSE Val(p.displayName),
                  place_id |-> p.id]

FirstPlaces_Unsliced(body) == IF body.places = None THEN <<>> ELSE Val(body.places)

(* response_data.get("places", [])[:20] *)
FirstPlaces(body) ==
    LET l == IF body.places = None THEN <<>> ELSE Val(body.places)
    IN  SubSeq(l, 1, Min(Len(l), ResultLimit))

ShapedPlaces(body) == [i \in 1..Len(FirstPlaces(body)) |-> ShapePlace(FirstPlaces(body)[i])]

---------------------------------------------------------------------------
Init ==
    /\ request \in Requests
    /\ pc = "start"
    /\ lat = request.lat
    /\ lon = request.lon
    /\ calls = <<>>
    /\ geocode_req = None
    /\ isochrone_req = None
    /\ places_req = None
    /\ geocode_resp = None
    /\ isochrone_resp = None
    /\ places_resp = None
    /\ average_radius = None
    /\ status_code = 0
    /\ raised = ""
    /\ result = None
    /\ silent = FALSE

(* raise HTTPException(status_code=code), or an exception no except clause *)
(* catches, which the server answers with 500                              *)
Raise(code, exception) ==
    /\ pc' = "failed"
    /\ status_code' = code
    /\ raised' = exception
    /\ result' = None

Running(stage) ==
    /\ pc' = stage
    /\ UNCHANGED <<status_code, raised, result>>

(* requests.get(geocode_url, params=params) is entered *)
CallGeocoder ==
    /\ calls' = Append(calls, "geocoder")
    /\ geocode_req' = Some([address |-> Val(request.location)])
    /\ Running("resolving")
    /\ UNCHANGED <<isochrone_req, places_req>>

(* requests.post(ors_url, ...) is entered, with the origin (la, lo) *)
CallIsochrone(la, lo) ==
    /\ calls' = Append(calls, "isochrone")
    /\ isochrone_req' = Some([mode |-> request.mode, locations |-> <<lo, la>>,
                              range |-> request.minutes * 60])
    /\ Running("estimating")
    /\ UNCHANGED <<geocode_req, places_req>>

(* requests.post(gplaces_url, ...) is entered *)
CallPlaces(radius) ==
    /\ calls' = Append(calls, "places")
    /\ places_req' = Some([textQuery |-> TextQuery(request.keyword, request.type),
                           maxResultCount |-> MaxResultCount,
                           latitude |-> lat, longitude |-> lon,
                           radius |-> PlacesRadius(radius),
                           includedType |-> request.type])
    /\ Running("querying")
    /\ UNCHANGED <<geocode_req, isochrone_req>>

NoCall == UNCHANGED <<calls, geocode_req, isochrone_req, places_req>>

(* find_places from its entry to its first provider call *)
Start ==
    /\ pc = "start"
    /\ IF MissingInput(request.location, lat, lon)
         THEN Raise(422, "HTTPException") /\ NoCall
       ELSE IF NeedsGeocoding(request.location, lat, lon)
         THEN CallGeocoder
       ELSE CallIsochrone(lat, lon)
    /\ UNCHANGED <<request, lat, lon, geocode_resp, isochrone_resp, places_resp,
                   average_radius, silent>>

(* the geocoder answers: the rest of the geocoding block, up to the *)
(* isochrone call                                                   *)
GeocodeReturn(resp) ==
    /\ pc = "resolving"
    /\ ~silent
    /\ geocode_resp' = Some(resp)
    /\ IF GeocodeRequestException(resp)
         THEN Raise(503, "HTTPException") /\ NoCall /\ UNCHANGED <<lat, lon>>
       ELSE IF Val(resp.body).status # "OK"
         THEN Raise(422, "HTTPException") /\ NoCall /\ UNCHANGED <<lat, lon>>
       ELSE IF Val(resp.body).results = <<>>
         THEN Raise(500, "IndexError") /\ NoCall /\ UNCHANGED <<lat, lon>>
       ELSE LET location_data == Val(resp.body).results[1] IN
            /\ lat' = Some(location_data.lat)
            /\ lon' = Some(location_data.lng)
            /\ CallIsochrone(Some(location_data.lat), Some(location_data.lng))
    /\ UNCHANGED <<request, isochrone_resp, places_resp, average_radius, silent>>

(* the isochrone provider answers: the rest of the isochrone block, the *)
(* average radius, and the places block up to its call                  *)
IsochroneReturn(resp) ==
    /\ pc = "estimating"
    /\ ~silent
    /\ isochrone_resp' = Some(resp)
    /\ IF IsochroneRequestException(resp)
         THEN Raise(503, "HTTPException") /\ NoCall /\ UNCHANGED average_radius
       ELSE IF Val(resp.body).features = None
         THEN Raise(500, "KeyError") /\ NoCall /\ UNCHANGED average_radius
       ELSE IF Val(Val(resp.body).features) = <<>>
         THEN Raise(500, "IndexError") /\ NoCall /\ UNCHANGED average_radius
       ELSE LET geometry == Val(Val(resp.body).features)[1] IN
         IF ShapeRaises(geometry)
           THEN Raise(500, "GeometryError") /\ NoCall /\ UNCHANGED average_radius
         ELSE IF lat = None \/ lon = None
           THEN Raise(500, "TypeError") /\ NoCall /\ UNCHANGED average_radius
         ELSE LET distances == Distances(Val(lat), Val(lon), ExteriorCoords(geometry)) IN
           IF Len(distances) = 0
             THEN Raise(500, "ZeroDivisionError") /\ NoCall /\ UNCHANGED average_radius
           ELSE /\ average_radius' = Some(AverageRadius(distances))
                /\ CallPlaces(AverageRadius(distances))
    /\ UNCHANGED <<request, lat, lon, geocode_resp, places_resp, silent>>

(* the places provider answers: the rest of the places block *)
PlacesReturn(resp) ==
    /\ pc = "querying"
    /\ ~silent
    /\ places_resp' = Some(resp)
    /\ IF PlacesRequestException(resp)
         THEN Raise(503, "HTTPException")
         ELSE /\ pc' = "done"
              /\ status_code' = 200
              /\ raised' = ""
              /\ result' = Some([average_radius |-> Val(average_radius),
                                 places |-> ShapedPlaces(Val(resp.body))])
    /\ NoCall
    /\ UNCHANGED <<request, lat, lon, geocode_resp, isochrone_resp, average_radius,
                   silent>>

(* the handler is inside requests.get or requests.post *)
Blocked == pc \in {"resolving", "estimating", "querying"}

(* the provider that was called never answers: the three calls pass no    *)
(* timeout, so requests neither returns nor raises and the handler stays  *)
(* inside the call                                                        *)
ProviderSilent ==
    /\ Blocked
    /\ ~silent
    /\ silent' = TRUE
    /\ UNCHANGED <<request, pc, lat, lon, calls, geocode_req, isochrone_req, places_req,
                   geocode_resp, isochrone_resp, places_resp, average_radius,
                   status_code, raised, result>>

Next ==
    \/ Start
    \/ \E resp \in GeocodeResponses : GeocodeReturn(resp)
    \/ \E resp \in IsochroneResponses : IsochroneReturn(resp)
    \/ \E resp \in PlacesResponses : PlacesReturn(resp)
    \/ ProviderSilent

Spec == Init /\ [][Next]_vars

(* the server runs the handler whenever it can go on, and a provider that *)
(* has not gone silent answers                                            *)
LiveSpec == Spec /\ WF_vars(Next)

---------------------------------------------------------------------------
(* Properties *)

Called(provider) == \E i \in DOMAIN calls : calls[i] = provider

CoordinatesSupplied == request.lat # None /\ request.lon # None

(* C1: when the request supplies both lat and lon, with or without a      *)
(* location, the geocoder is never called and the origin sent to the      *)
(* isochrone provider and to the places provider is the supplied pair.    *)
C1_SuppliedCoordinatesAreTheOrigin ==
    CoordinatesSupplied =>
        /\ ~Called("geocoder")
        /\ geocode_req = None
        /\ isochrone_req # None =>
             Val(isochrone_req).locations = <<request.lon, request.lat>>
        /\ places_req # None =>
             /\ Val(places_req).latitude = request.lat
             /\ Val(places_req).longitude = request.lon

C1_Witness ==
    /\ CoordinatesSupplied
    /\ Truthy(request.location)
    /\ isochrone_req # None
    /\ places_req # None
    /\ pc = "done"

(* C2: a request with no location and without a full coordinate pair ends *)
(* in a 422 and calls no provider.                                        *)
C2_MissingInputIsRejected ==
    (request.location = None /\ (request.lat = None \/ request.lon = None)) =>
        /\ calls = <<>>
        /\ pc \in {"start", "failed"}
        /\ pc = "failed" => (status_code = 422 /\ raised = "HTTPException")

C2_Witness ==
    /\ request.location = None
    /\ request.lat # None
    /\ request.lon = None
    /\ pc = "failed"
    /\ status_code = 422

GeocoderAnswered == geocode_resp # None /\ Val(geocode_resp).exc = ""

GeocoderAnswered200 == GeocoderAnswered /\ Val(geocode_resp).status_code = 200

(* C3: when the geocoder answers with an empty candidate list, whatever   *)
(* its status field, the request fails with a 422 and neither the         *)
(* isochrone provider nor the places provider is called.                  *)
C3_ZeroCandidatesIsNotFound ==
    (GeocoderAnswered200 /\ Val(Val(geocode_resp).body).results = <<>>) =>
        /\ pc = "failed"
        /\ status_code = 422
        /\ ~Called("isochrone")
        /\ ~Called("places")

(* C4: when the geocoder is unreachable, answers with an HTTP error, or   *)
(* answers with a status other than OK and ZERO_RESULTS, the request      *)
(* fails with a 503.                                                      *)
C4_GeocoderFailureIsUpstreamError ==
    (/\ geocode_resp # None
     /\ \/ Val(geocode_resp).exc # ""
        \/ Val(geocode_resp).status_code >= 400
        \/ Val(Val(geocode_resp).body).status \notin {"OK", "ZERO_RESULTS"}) =>
        /\ pc = "failed"
        /\ status_code = 503
        /\ raised = "HTTPException"

(* C5: with a valid origin, when the isochrone call fails in transport or *)
(* answers with an HTTP error status, the request fails with a 503 and    *)
(* the places provider is not called.                                     *)
C5_IsochroneFailureIsUpstreamError ==
    (/\ lat # None /\ lon # None
     /\ isochrone_resp # None
     /\ (Val(isochrone_resp).exc # "" \/ Val(isochrone_resp).status_code >= 400)) =>
        /\ pc = "failed"
        /\ status_code = 503
        /\ raised = "HTTPException"
        /\ ~Called("places")
        /\ places_req = None

C5_Witness ==
    /\ lat # None /\ lon # None
    /\ isochrone_resp # None
    /\ Val(isochrone_resp).exc = ""
    /\ Val(isochrone_resp).status_code >= 400
    /\ pc = "failed"

IsochroneAnswered200 ==
    /\ isochrone_resp # None
    /\ Val(isochrone_resp).exc = ""
    /\ Val(isochrone_resp).status_code = 200

(* the answer has a feature list that is empty or starts with a geometry *)
(* that is no polygon, has a ring of 1 or 2 coordinates, or has no vertex *)
UnusableIsochrone ==
    LET features == Val(Val(isochrone_resp).body).features IN
    /\ features # None
    /\ \/ Val(features) = <<>>
       \/ Val(features)[1].type # "Polygon"
       \/ Len(Val(features)[1].coordinates) < 3

(* C6: when the isochrone provider answers 200 with no feature, with a    *)
(* malformed geometry or with a polygon of zero vertices, the request     *)
(* fails with a 503: no unhandled error and no 200.                       *)
C6_UnusableIsochroneIsUpstreamError ==
    (IsochroneAnswered200 /\ UnusableIsochrone) =>
        /\ pc = "failed"
        /\ status_code = 503
        /\ raised = "HTTPException"

(* C7: the radius sent to the places provider is min(average_radius,      *)
(* 50000): never above 50000, and the estimate itself when that is at     *)
(* most 50000.                                                            *)
C7_RadiusIsCapped ==
    places_req # None =>
        /\ average_radius # None
        /\ Val(places_req).radius <= 50000
        /\ Val(average_radius) <= 50000 => Val(places_req).radius = Val(average_radius)
        /\ Val(average_radius) > 50000 => Val(places_req).radius = 50000

C7_Witness ==
    /\ places_req # None
    /\ Val(average_radius) > 50000
    /\ Val(places_req).radius = 50000

ProviderPlaces ==
    IF Val(Val(places_resp).body).places = None THEN <<>>
    ELSE Val(Val(Val(places_resp).body).places)

(* C8: a 200 response lists at most 20 places, and they are the first     *)
(* min(n, 20) of the n venues the places provider returned, in its order. *)
C8_FirstTwentyInProviderOrder ==
    pc = "done" =>
        LET places == Val(result).places IN
        /\ status_code = 200
        /\ Len(places) <= 20
        /\ Len(places) = Min(Len(ProviderPlaces), 20)
        /\ \A i \in 1..Len(places) :
             /\ places[i].place_id = ProviderPlaces[i].id
             /\ places[i].name = (IF ProviderPlaces[i].displayName = None THEN "Unknown"
                                  ELSE Val(ProviderPlaces[i].displayName))

C8_Witness ==
    /\ pc = "done"
    /\ Len(ProviderPlaces) > 20
    /\ Len(Val(result).places) = 20
    /\ ProviderPlaces[1].id > ProviderPlaces[2].id

(* C9: a request whose mode is not one of the enumerated transport modes  *)
(* is rejected with a 422 before any provider is called, and the          *)
(* isochrone provider is only called with an enumerated mode.             *)
C9_ModeIsValidated ==
    /\ request.mode \notin TransportMode =>
         /\ calls = <<>>
         /\ pc \in {"start", "failed"}
         /\ pc = "failed" => status_code = 422
    /\ isochrone_req # None => Val(isochrone_req).mode \in TransportMode

GeocoderSucceeded ==
    /\ GeocoderAnswered200
    /\ Val(Val(geocode_resp).body).status = "OK"
    /\ Val(Val(geocode_resp).body).results # <<>>

PlacesAnswered200 ==
    /\ places_resp # None
    /\ Val(places_resp).exc = ""
    /\ Val(places_resp).status_code = 200

(* the providers are called in the order geocoder, isochrone, places,     *)
(* each at most once, each only after the stage before it succeeded; a    *)
(* 200 only after the places call succeeded; a failure carries no result  *)
StagesInOrder ==
    /\ calls \in {<<>>, <<"geocoder">>, <<"isochrone">>,
                  <<"geocoder", "isochrone">>, <<"isochrone", "places">>,
                  <<"geocoder", "isochrone", "places">>}
    /\ (Called("geocoder") /\ Called("isochrone")) => GeocoderSucceeded
    /\ Called("places") =>
         (/\ IsochroneAnswered200
          /\ Val(Val(isochrone_resp).body).features # None
          /\ ~UnusableIsochrone
          /\ average_radius # None)
    /\ pc = "done" =>
         (Called("places") /\ PlacesAnswered200 /\ status_code = 200 /\ result # None)
    /\ pc = "failed" => (result = None /\ status_code \in {422, 500, 503})
    /\ (pc = "failed" /\ isochrone_resp = None) => ~Called("places")
    /\ (pc = "failed" /\ geocode_resp # None /\ isochrone_resp = None) =>
         ~Called("isochrone")

(* C10: the stages run in the order Resolving, Estimating, Querying, each *)
(* provider called at most once; the isochrone call is issued only after  *)
(* resolution succeeded, that is with an origin; the places call only     *)
(* after the isochrone call succeeded and a radius was computed; a 200    *)
(* only after the places call succeeded; a failure ends the request with  *)
(* no later stage and no result.                                          *)
C10_PipelineOrder ==
    /\ StagesInOrder
    /\ Called("isochrone") => (lat # None /\ lon # None)

Terminated == pc \in {"done", "failed"}

(* C11: no operation blocks indefinitely: every request eventually ends   *)
(* in a 200 or in a failure, and a request whose provider never answers   *)
(* ends with a 503.                                                       *)
C11_EveryRequestTerminates ==
    /\ <>Terminated
    /\ silent ~> (pc = "failed" /\ status_code = 503)

(* C12: whenever the isochrone provider or the places provider is called, *)
(* the latitude and the longitude of the origin are both defined.         *)
C12_OriginIsDefinedAtCalls ==
    /\ isochrone_req # None =>
         /\ Val(isochrone_req).locations[1] # None
         /\ Val(isochrone_req).locations[2] # None
    /\ places_req # None =>
         /\ Val(places_req).latitude # None
         /\ Val(places_req).longitude # None
====
